---- MODULE Spec2Model ----
(***************************************************************************)
(* Model of pairwise_runner.py: read a node list, shuffle it, drop one     *)
(* node when the count is odd, pair the nodes by reject-and-redraw, then   *)
(* for each pair render a batch script, write it under log/, mark it       *)
(* executable and hand it to sbatch.                                       *)
(*                                                                         *)
(* Strings are sequences of one-character strings, so that replace, split  *)
(* and the f-string templates are computed character by character.         *)
(***************************************************************************)
EXTENDS Integers, Sequences, FiniteSets, TLC

VARIABLES
    pc,                 \* position in main
    omb_name,           \* argv: benchmark module name
    mpi_cmd,            \* argv: launch command
    input,              \* what read_file returned: [n, count] (length, occurrences)
    nodes,              \* the list being shuffled, filtered and consumed
    excluded,           \* stdout: the nodes printed as excluded
    pairs,              \* create_pairs' result list
    node1, node2,       \* create_pairs' locals
    sanitized_omb_name, \* main's local
    i,                  \* enumerate index of the for loop
    job_script,         \* the rendered script of the current iteration
    script_name,        \* the file name of the current iteration
    dirExists,          \* file system: whether log/ exists
    files,              \* file system: script name -> [body, complete, exec]
    submitted,          \* the sbatch invocations made, in order
    trace,              \* the dispatch steps taken, in order
    error,              \* the uncaught exception that ended the run, if any
    probe               \* naming probe: two indices and two pairs named side by side

progVars == <<pc, omb_name, mpi_cmd, input, nodes, excluded, pairs, node1, node2,
              sanitized_omb_name, i, job_script, script_name, dirExists, files,
              submitted, trace, error>>
vars == <<progVars, probe>>

----------------------------------------------------------------------------
(* Bounds *)

\* longest node list read from the file
MaxNodes == 4
\* largest sequence index the naming probe tries
MaxIndex == 11

----------------------------------------------------------------------------
(* Input alphabets *)

\* lines read_file can return: a blank line, plain host names, and a line
\* holding a comma
NodeIds == { <<>>, <<"a">>, <<"b">>, <<"c">>, <<"a", ",", "b">> }

ModuleNames == { <<"m">>, <<"l", "/", "2">> }

MpiCmds == { <<"s", "r", "u", "n">> }

\* exit statuses of the submit command
ExitCodes == {0, 1}

NodeLists == UNION { [1..n -> NodeIds] : n \in 0..MaxNodes }

----------------------------------------------------------------------------
(* String and list primitives *)

Range(s) == { s[k] : k \in DOMAIN s }

Count(l, x) == Cardinality({ k \in DOMAIN l : l[k] = x })

\* str.replace(old, new) for one-character old and new
Replace(s, old, new) == [k \in DOMAIN s |-> IF s[k] = old THEN new ELSE s[k]]

\* str.split(sep) for a one-character sep
RECURSIVE Split(_, _)
Split(s, sep) ==
    IF \A k \in DOMAIN s : s[k] # sep
    THEN << s >>
    ELSE LET k == CHOOSE k \in DOMAIN s : s[k] = sep /\ \A j \in 1..(k-1) : s[j] # sep
         IN  << SubSeq(s, 1, k-1) >> \o Split(SubSeq(s, k+1, Len(s)), sep)

Digits == << "0", "1", "2", "3", "4", "5", "6", "7", "8", "9" >>

\* the decimal rendering an f-string gives a non-negative int
RECURSIVE Str(_)
Str(n) == IF n < 10 THEN << Digits[n + 1] >>
          ELSE Str(n \div 10) \o << Digits[(n % 10) + 1] >>

\* list.remove(x): drops the first occurrence
Remove(l, x) ==
    LET k == CHOOSE k \in DOMAIN l : l[k] = x /\ \A j \in 1..(k-1) : l[j] # x
    IN  SubSeq(l, 1, k-1) \o SubSeq(l, k+1, Len(l))

\* list.pop(index), index 0-based
Pop(l, index) == SubSeq(l, 1, index) \o SubSeq(l, index + 2, Len(l))

\* random.shuffle: any rearrangement of the list
Shuffles(l) ==
    { [k \in DOMAIN l |-> l[f[k]]] : f \in Permutations(DOMAIN l) }

\* does sub occur in s
Contains(s, sub) ==
    \E k \in 0..(Len(s) - Len(sub)) : SubSeq(s, k + 1, k + Len(sub)) = sub

----------------------------------------------------------------------------
(* Templates *)

\* f"{node1},{node2}"
PairString(n1, n2) == n1 \o << "," >> \o n2

SanitizeNothing(name) == name

\* omb_name.replace('/', '-')
Sanitize(name) == Replace(name, "/", "-")

JobName(omb, n1, n2) ==
    << "b", "i", "b", "w", "_" >> \o omb \o << "_" >> \o n1 \o << "_" >> \o n2

ScriptNameNoIndex(idx, san, pair) ==
    << "l", "o", "g", "/", "b", "i", "b", "w", "_" >> \o san \o << "_" >>
        \o Replace(pair, ",", "_") \o << ".", "s", "h" >>

\* f"log/bibw_{i}_{sanitized_omb_name}_{pair.replace(',', '_')}.sh"
ScriptName(idx, san, pair) ==
    << "l", "o", "g", "/", "b", "i", "b", "w", "_" >> \o Str(idx) \o << "_" >> \o san
        \o << "_" >> \o Replace(pair, ",", "_") \o << ".", "s", "h" >>

\* log/{i}_{sanitized_omb_name}_{node1}_{node2}_%j.out
OutputPath(idx, san, n1, n2) ==
    << "l", "o", "g", "/" >> \o Str(idx) \o << "_" >> \o san \o << "_" >> \o n1
        \o << "_" >> \o n2 \o << "_", "%", "j", ".", "o", "u", "t" >>

NoScript == [ job_name |-> <<>>, nodelist |-> <<>>, output |-> <<>>,
              module |-> <<>>, command |-> <<>> ]

\* the lines of the script that depend on the arguments
generate_job_script(idx, pair, omb, cmd, san) ==
    LET parts == Split(pair, ",")
        n1 == parts[1]
        n2 == parts[2]
    IN  [ job_name |-> JobName(omb, n1, n2),
          nodelist |-> n1 \o << "," >> \o n2,
          output   |-> OutputPath(idx, san, n1, n2),
          module   |-> omb,
          command  |-> cmd \o << " ", "\"", "o", "s", "u", "_", "b", "i", "b", "w", "\"" >> ]

\* node1, node2 = pair.split(','): unpacking needs exactly two parts
Unpacks(pair) == Len(Split(pair, ",")) = 2

----------------------------------------------------------------------------
(* Library behaviour the dispatch steps rely on *)

PairAtReversed(ps, idx) == ps[Len(ps) - idx]

\* for i, pair in enumerate(pairs): the pair at index i
PairAt(ps, idx) == ps[idx + 1]

NeedsMakedirsAlways(exists) == TRUE

\* if not os.path.exists(log_dir)
NeedsMakedirs(exists) == ~exists

\* os.makedirs(log_dir): raises when the directory exists or cannot be made
MakedirsError(exists, denied) ==
    IF exists THEN "FileExistsError" ELSE IF denied THEN "OSError" ELSE "none"

WriteContinuesAlways(outcome) == TRUE

\* with open(script_name, 'w') as f: f.write(job_script), no handler around it:
\* the next statement runs only when neither open nor write raised
WriteContinues(outcome) == outcome = "ok"

\* what the file system holds after the with block
WriteResult(fs, name, body, outcome) ==
    IF outcome = "open_fails" THEN fs
    ELSE [ n \in DOMAIN fs \cup {name} |->
             IF n = name
             THEN [ body     |-> IF outcome = "ok" THEN body ELSE NoScript,
                    complete |-> outcome = "ok",
                    exec     |-> IF name \in DOMAIN fs THEN fs[name].exec ELSE FALSE ]
             ELSE fs[n] ]

RunRaisesChecked(rc) == rc # 0

\* subprocess.run(['sbatch', script_name]) without check=True: a returned
\* exit status never raises
RunRaises(rc) == FALSE

Event(step, ok, existed, made) ==
    [ step |-> step, i |-> i, ok |-> ok, existed |-> existed, made |-> made ]

NoProbe == [ stage |-> "off", i |-> 0, j |-> 0, omb |-> <<>>, pairA |-> <<>>,
             pairB |-> <<>>, nameA |-> <<>>, nameB |-> <<>>, outA |-> <<>>, outB |-> <<>> ]

----------------------------------------------------------------------------
(* The program *)

InitProg ==
    /\ pc = "start"
    /\ omb_name = <<>>
    /\ mpi_cmd = <<>>
    /\ input = [ n |-> 0, count |-> [ x \in NodeIds |-> 0 ] ]
    /\ nodes = <<>>
    /\ excluded = <<>>
    /\ pairs = <<>>
    /\ node1 = <<>>
    /\ node2 = <<>>
    /\ sanitized_omb_name = <<>>
    /\ i = 0
    /\ job_script = NoScript
    /\ script_name = <<>>
    /\ files = << >>
    /\ submitted = <<>>
    /\ trace = <<>>
    /\ error = "none"

Init ==
    /\ InitProg
    /\ dirExists \in BOOLEAN
    /\ probe = NoProbe

\* main(nodelist_file, omb_name, mpi_cmd) is entered with its arguments
Main ==
    /\ pc = "start"
    /\ \E m \in ModuleNames, c \in MpiCmds :
         /\ omb_name' = m
         /\ mpi_cmd' = c
    /\ pc' = "read_file"
    /\ UNCHANGED <<input, nodes, excluded, pairs, node1, node2, sanitized_omb_name, i,
                   job_script, script_name, dirExists, files, submitted, trace, error,
                   probe>>

\* nodes = read_file(nodelist_file): the stripped lines, nothing filtered
ReadFile ==
    /\ pc = "read_file"
    /\ \E l \in NodeLists :
         /\ nodes' = l
         /\ input' = [ n |-> Len(l), count |-> [ x \in NodeIds |-> Count(l, x) ] ]
    /\ pc' = "shuffle"
    /\ UNCHANGED <<omb_name, mpi_cmd, excluded, pairs, node1, node2, sanitized_omb_name,
                   i, job_script, script_name, dirExists, files, submitted, trace, error,
                   probe>>

\* open(file_path) raises: the run ends before anything is paired
ReadFileFails ==
    /\ pc = "read_file"
    /\ pc' = "crashed"
    /\ error' = "OSError"
    /\ UNCHANGED <<omb_name, mpi_cmd, input, nodes, excluded, pairs, node1, node2,
                   sanitized_omb_name, i, job_script, script_name, dirExists, files,
                   submitted, trace, probe>>

\* random.shuffle(nodes)
Shuffle ==
    /\ pc = "shuffle"
    /\ \E l \in Shuffles(nodes) : nodes' = l
    /\ pc' = "filter"
    /\ UNCHANGED <<omb_name, mpi_cmd, input, excluded, pairs, node1, node2,
                   sanitized_omb_name, i, job_script, script_name, dirExists, files,
                   submitted, trace, error, probe>>

\* the odd-count exclusion, and the hand-over to create_pairs
Filter ==
    /\ pc = "filter"
    /\ IF Len(nodes) % 2 # 0
       THEN \E random_index \in 0..(Len(nodes) - 1) :
              /\ excluded' = Append(excluded, nodes[random_index + 1])
              /\ nodes' = Pop(nodes, random_index)
       ELSE UNCHANGED <<excluded, nodes>>
    /\ pc' = "create_pairs"
    /\ UNCHANGED <<omb_name, mpi_cmd, input, pairs, node1, node2, sanitized_omb_name, i,
                   job_script, script_name, dirExists, files, submitted, trace, error,
                   probe>>

\* while len(nodes) > 1: node1 = random.choice(nodes); node2 = random.choice(nodes)
Draw ==
    /\ pc = "create_pairs"
    /\ Len(nodes) > 1
    /\ \E k1, k2 \in DOMAIN nodes :
         /\ node1' = nodes[k1]
         /\ node2' = nodes[k2]
    /\ pc' = "redraw"
    /\ UNCHANGED <<omb_name, mpi_cmd, input, nodes, excluded, pairs, sanitized_omb_name,
                   i, job_script, script_name, dirExists, files, submitted, trace, error,
                   probe>>

\* while node1 == node2: node2 = random.choice(nodes)
Redraw ==
    /\ pc = "redraw"
    /\ node1 = node2
    /\ \E k \in DOMAIN nodes : node2' = nodes[k]
    /\ UNCHANGED <<pc, omb_name, mpi_cmd, input, nodes, excluded, pairs, node1,
                   sanitized_omb_name, i, job_script, script_name, dirExists, files,
                   submitted, trace, error, probe>>

\* pairs.append(f"{node1},{node2}"); nodes.remove(node1); nodes.remove(node2)
AppendPair ==
    /\ pc = "redraw"
    /\ node1 # node2
    /\ pairs' = Append(pairs, PairString(node1, node2))
    /\ nodes' = Remove(Remove(nodes, node1), node2)
    /\ pc' = "create_pairs"
    /\ UNCHANGED <<omb_name, mpi_cmd, input, excluded, node1, node2, sanitized_omb_name,
                   i, job_script, script_name, dirExists, files, submitted, trace, error,
                   probe>>

\* the while loop ends, create_pairs returns, main sanitizes the module name
ReturnPairs ==
    /\ pc = "create_pairs"
    /\ ~(Len(nodes) > 1)
    /\ sanitized_omb_name' = Sanitize(omb_name)
    /\ pc' = "for"
    /\ UNCHANGED <<omb_name, mpi_cmd, input, nodes, excluded, pairs, node1, node2, i,
                   job_script, script_name, dirExists, files, submitted, trace, error,
                   probe>>

\* the for loop takes its next pair and renders the script
Generate ==
    /\ pc = "for"
    /\ i < Len(pairs)
    /\ IF Unpacks(PairAt(pairs, i))
       THEN /\ job_script' = generate_job_script(i, PairAt(pairs, i), omb_name, mpi_cmd,
                                                 sanitized_omb_name)
            /\ pc' = "ensure_dir"
            /\ error' = error
       ELSE /\ job_script' = job_script
            /\ pc' = "crashed"
            /\ error' = "ValueError"
    /\ UNCHANGED <<omb_name, mpi_cmd, input, nodes, excluded, pairs, node1, node2,
                   sanitized_omb_name, i, script_name, dirExists, files, submitted,
                   trace, probe>>

\* the for loop is exhausted
Finish ==
    /\ pc = "for"
    /\ ~(i < Len(pairs))
    /\ pc' = "done"
    /\ UNCHANGED <<omb_name, mpi_cmd, input, nodes, excluded, pairs, node1, node2,
                   sanitized_omb_name, i, job_script, script_name, dirExists, files,
                   submitted, trace, error, probe>>

\* if not os.path.exists(log_dir): os.makedirs(log_dir)
EnsureDir ==
    /\ pc = "ensure_dir"
    /\ IF NeedsMakedirs(dirExists)
       THEN \E denied \in BOOLEAN :
              LET e == MakedirsError(dirExists, denied)
              IN  /\ error' = e
                  /\ dirExists' = (dirExists \/ e = "none")
                  /\ pc' = IF e = "none" THEN "write" ELSE "crashed"
                  /\ trace' = Append(trace, Event("ensure_dir", e = "none", dirExists, TRUE))
       ELSE /\ UNCHANGED <<error, dirExists>>
            /\ pc' = "write"
            /\ trace' = Append(trace, Event("ensure_dir", TRUE, dirExists, FALSE))
    /\ UNCHANGED <<omb_name, mpi_cmd, input, nodes, excluded, pairs, node1, node2,
                   sanitized_omb_name, i, job_script, script_name, files, submitted,
                   probe>>

\* the script name is formed and the script written
WriteScript ==
    /\ pc = "write"
    /\ LET name == ScriptName(i, sanitized_omb_name, PairAt(pairs, i))
       IN  /\ script_name' = name
           /\ \E outcome \in {"ok", "open_fails", "write_fails"} :
                /\ files' = WriteResult(files, name, job_script, outcome)
                /\ trace' = Append(trace, Event("write", outcome = "ok", dirExists, FALSE))
                /\ IF WriteContinues(outcome)
                   THEN pc' = "chmod" /\ error' = error
                   ELSE pc' = "crashed" /\ error' = "OSError"
    /\ UNCHANGED <<omb_name, mpi_cmd, input, nodes, excluded, pairs, node1, node2,
                   sanitized_omb_name, i, job_script, dirExists, submitted, probe>>

\* os.chmod(script_name, 0o755)
Chmod ==
    /\ pc = "chmod"
    /\ \E ok \in BOOLEAN :
         /\ trace' = Append(trace, Event("chmod", ok, dirExists, FALSE))
         /\ IF ok /\ script_name \in DOMAIN files
            THEN /\ files' = [ files EXCEPT ![script_name].exec = TRUE ]
                 /\ pc' = "submit"
                 /\ error' = error
            ELSE /\ files' = files
                 /\ pc' = "crashed"
                 /\ error' = "OSError"
    /\ UNCHANGED <<omb_name, mpi_cmd, input, nodes, excluded, pairs, node1, node2,
                   sanitized_omb_name, i, job_script, script_name, dirExists, submitted,
                   probe>>

\* subprocess.run(['sbatch', script_name]) returns with an exit status
Submit ==
    /\ pc = "submit"
    /\ \E rc \in ExitCodes :
         /\ submitted' = Append(submitted,
                [ argv |-> script_name, rc |-> rc,
                  read |-> IF script_name \in DOMAIN files
                           THEN files[script_name]
                           ELSE [ body |-> NoScript, complete |-> FALSE, exec |-> FALSE ] ])
         /\ trace' = Append(trace, Event("submit", ~RunRaises(rc), dirExists, FALSE))
         /\ IF RunRaises(rc)
            THEN pc' = "crashed" /\ error' = "CalledProcessError" /\ i' = i
            ELSE pc' = "for" /\ error' = error /\ i' = i + 1
    /\ UNCHANGED <<omb_name, mpi_cmd, input, nodes, excluded, pairs, node1, node2,
                   sanitized_omb_name, job_script, script_name, dirExists, files, probe>>

\* the sbatch executable cannot be started: subprocess.run raises
SubmitCannotStart ==
    /\ pc = "submit"
    /\ trace' = Append(trace, Event("submit", FALSE, dirExists, FALSE))
    /\ pc' = "crashed"
    /\ error' = "OSError"
    /\ UNCHANGED <<omb_name, mpi_cmd, input, nodes, excluded, pairs, node1, node2,
                   sanitized_omb_name, i, job_script, script_name, dirExists, files,
                   submitted, probe>>

Next ==
    \/ Main
    \/ ReadFile
    \/ ReadFileFails
    \/ Shuffle
    \/ Filter
    \/ Draw
    \/ Redraw
    \/ AppendPair
    \/ ReturnPairs
    \/ Generate
    \/ Finish
    \/ EnsureDir
    \/ WriteScript
    \/ Chmod
    \/ Submit
    \/ SubmitCannotStart

Spec == Init /\ [][Next]_vars

----------------------------------------------------------------------------
(* The naming functions on their own: two sequence indices of one run, the  *)
(* run's module name, and the pair processed at each index.                *)

\* module names with a separator, digits and underscores
ProbeModules == { <<"m">>, <<"l", "/", "2">>, <<"1", "_", "1">> }

\* node identifiers that overlap and hold digits and underscores
ProbeNodes == { <<"a">>, <<"1">>, <<"1", "_", "a">> }

ProbePairs == { PairString(x, y) : x, y \in ProbeNodes }

NameInit ==
    /\ InitProg
    /\ dirExists = FALSE
    /\ \E a, b \in 0..MaxIndex, m \in ProbeModules, p, q \in ProbePairs :
         probe = [ NoProbe EXCEPT !.stage = "drawn", !.i = a, !.j = b, !.omb = m,
                                  !.pairA = p, !.pairB = q ]

\* the script name and log path of the pair at index probe.i
NameFirst ==
    /\ probe.stage = "drawn"
    /\ probe' = [ probe EXCEPT
         !.stage = "first",
         !.nameA = ScriptName(probe.i, Sanitize(probe.omb), probe.pairA),
         !.outA  = generate_job_script(probe.i, probe.pairA, probe.omb, <<>>,
                                       Sanitize(probe.omb)).output ]
    /\ UNCHANGED progVars

\* the script name and log path of the pair at index probe.j
NameSecond ==
    /\ probe.stage = "first"
    /\ probe' = [ probe EXCEPT
         !.stage = "both",
         !.nameB = ScriptName(probe.j, Sanitize(probe.omb), probe.pairB),
         !.outB  = generate_job_script(probe.j, probe.pairB, probe.omb, <<>>,
                                       Sanitize(probe.omb)).output ]
    /\ UNCHANGED progVars

NameNext == NameFirst \/ NameSecond

NameSpec == NameInit /\ [][NameNext]_vars

----------------------------------------------------------------------------
(* Vocabulary of the properties *)

\* create_pairs has returned to main
Returned ==
    \/ pc \in {"for", "ensure_dir", "write", "chmod", "submit", "done"}
    \/ pc = "crashed" /\ (error = "ValueError" \/ trace # <<>>)

\* the redraw loop can draw nothing but node1 again
Stuck == pc = "redraw" /\ node1 = node2 /\ \A k \in DOMAIN nodes : nodes[k] = node1

\* the run has ended, or spins in the redraw loop for ever
RunOver == pc \in {"done", "crashed"} \/ Stuck

\* node x is a member of pair string p
InPair(x, p) == \E y \in NodeIds : p = PairString(x, y) \/ p = PairString(y, x)

PairsWith(x) == { k \in DOMAIN pairs : InPair(x, pairs[k]) }

InputIds == { x \in NodeIds : input.count[x] > 0 }

SelfPair(p) == \E x \in NodeIds : p = PairString(x, x)

DispatchSteps == << "ensure_dir", "write", "chmod", "submit" >>

WriteFailedAt(k) == trace[k].step = "write" /\ ~trace[k].ok

\* the submit command of event k ran and returned a non-zero status
SubmitReturnedNonZero(k) ==
    /\ trace[k].step = "submit"
    /\ trace[k].i + 1 \in DOMAIN submitted
    /\ submitted[trace[k].i + 1].rc # 0

SubmitFailedAt(k) ==
    trace[k].step = "submit" /\ (~trace[k].ok \/ SubmitReturnedNonZero(k))

----------------------------------------------------------------------------
(* Properties *)

\* C1: for a node list of even size N, once create_pairs has returned no node
\* was excluded, there are exactly N/2 pairs, every input node is in exactly
\* one pair, and no pair has two equal members.
C1_EvenPairing ==
    (Returned /\ input.n % 2 = 0) =>
        /\ excluded = <<>>
        /\ Len(pairs) = input.n \div 2
        /\ \A x \in InputIds : Cardinality(PairsWith(x)) = 1
        /\ \A k \in DOMAIN pairs : ~SelfPair(pairs[k])

\* C2: for a node list of odd size N, exactly one node is excluded and logged
\* before any pair is formed; once create_pairs has returned there are
\* (N-1)/2 pairs, every remaining node is in exactly one of them and the
\* excluded node is in none.
C2_OddPairing ==
    /\ (input.n % 2 = 1 /\ pairs # <<>>) => Len(excluded) = 1
    /\ (Returned /\ input.n % 2 = 1) =>
        /\ Len(excluded) = 1
        /\ Len(pairs) = (input.n - 1) \div 2
        /\ PairsWith(excluded[1]) = {}
        /\ \A x \in InputIds \ {excluded[1]} : Cardinality(PairsWith(x)) = 1

\* C3 as stated: when the module name holds a '/', the job name in the
\* rendered script and the script's file name both carry the sanitized tag
\* and neither holds the unsanitized name.
C3_SanitizedNames ==
    (Contains(omb_name, << "/" >>) /\ job_script # NoScript) =>
        /\ Contains(job_script.job_name, sanitized_omb_name)
        /\ ~Contains(job_script.job_name, omb_name)
        /\ script_name # <<>> =>
             /\ Contains(script_name, sanitized_omb_name)
             /\ ~Contains(script_name, omb_name)

\* C3 amended: when the module name holds a '/', the script's file name and
\* the log path requested in the script carry the sanitized tag and do not
\* hold the unsanitized name, while the job name in the script carries the
\* module name as given.
C3_FileNamesSanitized ==
    (Contains(omb_name, << "/" >>) /\ job_script # NoScript) =>
        /\ Contains(job_script.job_name, omb_name)
        /\ Contains(job_script.output, Replace(omb_name, "/", "-"))
        /\ ~Contains(job_script.output, omb_name)
        /\ script_name # <<>> =>
             /\ Contains(script_name, Replace(omb_name, "/", "-"))
             /\ ~Contains(script_name, omb_name)

C3_Witness ==
    /\ Contains(omb_name, << "/" >>)
    /\ pc = "chmod"
    /\ script_name \in DOMAIN files
    /\ files[script_name].body = job_script

\* C4: two pairs named at different sequence indices of one run get
\* different script file names and different log paths, whatever the module
\* name and the node identifiers.
C4_DistinctNames ==
    (probe.stage = "both" /\ probe.i # probe.j) =>
        /\ probe.nameA # probe.nameB
        /\ probe.outA # probe.outB

C4_Witness ==
    /\ probe.stage = "both"
    /\ probe.i = 1
    /\ probe.j = 11
    /\ probe.pairA = probe.pairB
    /\ probe.pairA = PairString(<< "1", "_", "a" >>, << "1" >>)
    /\ probe.omb = << "1", "_", "1" >>

\* C5: the dispatch steps run as ensure-directory, write, chmod, submit for
\* pair 0, then the same for pair 1, and so on with nothing interleaved; the
\* k-th submission is of the script of the k-th pair create_pairs returned,
\* and that script was completely written when it was submitted.
C5_DispatchOrder ==
    /\ \A k \in DOMAIN trace :
         /\ trace[k].step = DispatchSteps[((k - 1) % 4) + 1]
         /\ trace[k].i = (k - 1) \div 4
    /\ \A k \in DOMAIN submitted :
         /\ submitted[k].argv = ScriptName(k - 1, sanitized_omb_name, pairs[k])
         /\ submitted[k].read.complete
         /\ submitted[k].read.body =
              generate_job_script(k - 1, pairs[k], omb_name, mpi_cmd, sanitized_omb_name)

C5_Witness ==
    /\ pc = "done"
    /\ Len(submitted) = 2
    /\ Len(trace) = 8
    /\ pairs[1] # pairs[2]

\* C6: a non-zero exit status of the submit command raises nothing and the
\* loop moves on to the next pair; a run that reaches its end has submitted
\* every pair, whatever the exit statuses were.
C6_FireAndForget ==
    /\ error # "CalledProcessError"
    /\ \A k \in DOMAIN submitted : submitted[k].rc # 0 => i >= k
    /\ pc = "done" => Len(submitted) = Len(pairs)

C6_Witness ==
    /\ pc = "done"
    /\ Len(submitted) = 2
    /\ submitted[1].rc # 0
    /\ submitted[2].rc = 0

\* C7: the ensure-directory step never attempts a creation when log/ exists
\* and never fails because it exists; one run creates it at most once.
C7_MkdirIdempotent ==
    /\ error # "FileExistsError"
    /\ \A k \in DOMAIN trace :
         (trace[k].step = "ensure_dir" /\ trace[k].existed) =>
             ~trace[k].made /\ trace[k].ok
    /\ Cardinality({ k \in DOMAIN trace : trace[k].step = "ensure_dir" /\ trace[k].made }) <= 1

C7_Witness ==
    /\ pc = "done"
    /\ Len(trace) = 8
    /\ trace[1].made
    /\ trace[5].existed
    /\ ~trace[5].made

\* C8: with no file-system failure, a run over N nodes writes exactly
\* floor(N/2) scripts and submits each once; the script of index k names the
\* two nodes of pair k in --nodelist and its log path holds k and both nodes.
C8_AllPairsDispatched ==
    (RunOver /\ error # "OSError") =>
        /\ Cardinality(DOMAIN files) = input.n \div 2
        /\ Len(submitted) = input.n \div 2
        /\ \A k \in DOMAIN submitted :
             /\ \A j \in DOMAIN submitted : submitted[j].argv = submitted[k].argv => j = k
             /\ submitted[k].argv \in DOMAIN files
             /\ files[submitted[k].argv].body.nodelist = pairs[k]
             /\ Contains(files[submitted[k].argv].body.output, Str(k - 1))
             /\ \E x, y \in InputIds :
                  /\ pairs[k] = PairString(x, y)
                  /\ Contains(files[submitted[k].argv].body.output, x)
                  /\ Contains(files[submitted[k].argv].body.output, y)

\* C9: the redraw loop for node2 can always end (some remaining node differs
\* from node1), and when create_pairs has returned no node is left.
C9_PairingTerminates ==
    /\ (pc = "redraw" /\ node1 = node2) => \E k \in DOMAIN nodes : nodes[k] # node1
    /\ Returned => Len(nodes) = 0

\* C10 as stated: after a failed write or a failed submission the run goes
\* on as if it had succeeded, and a run that ends has written and submitted
\* every pair.
C10_ContinuesAfterFailure ==
    \A k \in DOMAIN trace :
        (WriteFailedAt(k) \/ SubmitFailedAt(k)) =>
            /\ error = "none"
            /\ pc # "crashed"
            /\ pc = "done" => Len(submitted) = Len(pairs)

\* C10 amended: a non-zero exit status of the submit command is not checked
\* and the run goes on to write and submit every later pair; a failed write
\* of the script file is an uncaught error that ends the run on the spot:
\* that pair is not submitted and no later pair is written or submitted.
C10_WriteFailureEndsRun ==
    \A k \in DOMAIN trace :
        /\ WriteFailedAt(k) =>
             /\ pc = "crashed"
             /\ error = "OSError"
             /\ k = Len(trace)
             /\ Len(submitted) = trace[k].i
             /\ \A n \in DOMAIN files : files[n].complete =>
                  \E j \in 0..(trace[k].i - 1) :
                      n = ScriptName(j, sanitized_omb_name, pairs[j + 1])
        /\ SubmitReturnedNonZero(k) =>
             /\ trace[k].ok
             /\ pc = "done" =>
                  /\ Len(submitted) = Len(pairs)
                  /\ \A j \in DOMAIN pairs :
                       files[ScriptName(j - 1, sanitized_omb_name, pairs[j])].complete

C10_Witness ==
    /\ pc = "crashed"
    /\ Len(trace) = 6
    /\ WriteFailedAt(6)
    /\ Len(submitted) = 1
    /\ submitted[1].rc # 0

====
